---------------------------- MODULE Spec2Model ----------------------------
(***************************************************************************)
(* A model of howdou (src/howdou/howdou.py): the knowledge-base loader,    *)
(* the staleness detector, the content-hash ledger, the incremental        *)
(* indexer, the two-phase local search, the remote fallback and the        *)
(* inter-process lock, as a state machine of concurrently running          *)
(* command-line invocations sharing the search index, the ledger           *)
(* directory, the sentinel file and the knowledge-base files.              *)
(*                                                                         *)
(* Text is a sequence of tokens (words, " " and "\n"), so that joining     *)
(* and concatenating strings is computed, not assumed injective.           *)
(***************************************************************************)
EXTENDS Integers, Sequences, FiniteSets, TLC

(***************************************************************************)
(* Bounds of the model.                                                    *)
(***************************************************************************)
\* Number of knowledge-base edits (each edit is a strictly later mtime).
MaxEdits == 2
\* Invocations of the command line by the one user of Spec.
MaxRuns == 4
\* Invocations of the command line over the processes of SpecConc.
MaxConcRuns == 2
\* Failed lock polls that are counted before the counter saturates.
MaxLockWaits == 2
\* Largest number of answers a query asks for (--num-answers).
MaxNumAnswers == 2
\* Longest list of links a web search returns.
MaxLinks == 3
\* Largest requested link position (--pos).
MaxPos == 4
MaxItems == 2

\* The concurrently running invocations (OS processes); 0 is "no process".
Procs == {1, 2}
NoProc == 0

(***************************************************************************)
(* Program constants.                                                      *)
(***************************************************************************)
\* LOCAL = 'local' (LOCAL is a reserved word of TLA+)
LOCAL_ == "local"
REMOTE == "remote"
NO_ANSWER_MSG == <<"< no answer given >">>
QUERY == "query"
REINDEX == "reindex"
CLEAR_CACHE == "clear-cache"
\* function_score "boost": '5' if exact else '1'
BoostExact == 5
BoostRelaxed == 1

(***************************************************************************)
(* Text.                                                                   *)
(***************************************************************************)
SP == " "
NL == "\n"

RECURSIVE Join(_, _)
\* sep.join(strs): u'\n'.join(map(text_type, questions))
Join(strs, sep) ==
  IF Len(strs) = 0 THEN <<>>
  ELSE IF Len(strs) = 1 THEN strs[1]
  ELSE strs[1] \o <<sep>> \o Join(Tail(strs), sep)

\* get_text_hash: SHA-512 of the UTF-8 bytes; distinct texts give distinct
\* digests, equal texts equal digests.
get_text_hash(text) == [sha512 |-> text]

\* The words of a text, as the search engine's analyzer splits it.
Words(text) == {text[i] : i \in 1..Len(text)} \ {SP, NL}

RECURSIVE Normalize(_)
\* re.sub(r'[\:\-]+', ' ', query): every run of colons and dashes becomes
\* one space
Normalize(query) ==
  IF query = <<>> THEN <<>>
  ELSE IF Head(query) \in {":", "-"}
  THEN IF Len(query) > 1 /\ query[2] \in {":", "-"} THEN Normalize(Tail(query))
       ELSE <<SP>> \o Normalize(Tail(query))
  ELSE <<Head(query)>> \o Normalize(Tail(query))

(***************************************************************************)
(* The knowledge base: files of items, an item being an include directive  *)
(* or a question/answer entry.                                             *)
(***************************************************************************)
ROOT == "howdou.yml"
INC1 == "inc1.yml"
INC2 == "inc2.yml"
Files == {ROOT, INC1, INC2}
NoInclude == ""

GoodDate == "2014-2-22"
BadDate == "someday"
\* dateutil.parser.parse(dt) succeeds
DateParses(dt) == dt # BadDate

Answer(text, date, weight) == [text |-> text, date |-> date, weight |-> weight]
Entry(questions, answers) ==
  [include |-> NoInclude, questions |-> questions, answers |-> answers]
Include(fn) == [include |-> fn, questions |-> <<>>, answers |-> <<>>]

\* Question strings and answer texts the knowledge bases are built from.
\* "a" + " " + "b c" and "a b" + " " + "c" are the same concatenation.
QA == <<"a">>
QAB == <<"a", SP, "b">>
QB == <<"b">>
TC == <<"c">>
TD == <<"d">>
TBC == <<"b", SP, "c">>
AnswerTexts == {TC, TD, TBC}
\* The texts an edit gives an answer.
EditTexts == {TBC}

\* The knowledge bases an invocation can find on disk at the start.
KBs ==
  { \* one ordinary entry in the root file
    [f \in Files |-> IF f = ROOT THEN <<Entry(<<QA>>, <<Answer(TC, GoodDate, 1)>>)>>
                     ELSE <<>>],
    \* one entry carrying two answers under the same questions
    [f \in Files |-> IF f = ROOT
                     THEN <<Entry(<<QA, QB>>, <<Answer(TC, GoodDate, 1),
                                                Answer(TD, GoodDate, 2)>>)>>
                     ELSE <<>>],
    \* a root of include directives only, nested to depth two
    [f \in Files |-> IF f = ROOT THEN <<Include(INC1)>>
                     ELSE IF f = INC1
                     THEN <<Entry(<<QA>>, <<Answer(TD, GoodDate, 1)>>), Include(INC2)>>
                     ELSE <<Entry(<<QAB>>, <<Answer(TC, GoodDate, 2)>>)>>],
    \* an answer whose date string does not parse
    [f \in Files |-> IF f = ROOT
                     THEN <<Entry(<<QB>>, <<Answer(TD, GoodDate, 1)>>),
                            Entry(<<QA>>, <<Answer(TC, BadDate, 1)>>)>>
                     ELSE <<>>],
    \* an entry without a question string, alone in the root file
    [f \in Files |-> IF f = ROOT THEN <<Entry(<<>>, <<Answer(TC, GoodDate, 1)>>)>>
                     ELSE <<>>],
    \* an entry with an empty list of answers, before an ordinary one
    [f \in Files |-> IF f = ROOT
                     THEN <<Entry(<<QA>>, <<>>),
                            Entry(<<QB>>, <<Answer(TD, GoodDate, 1)>>)>>
                     ELSE <<>>] }

VARIABLES
  kb,            \* file name -> sequence of items (the parsed YAML document)
  malformed,     \* the files whose YAML does not scan
  mtime,         \* file name -> modification time
  clock,         \* the time of the latest knowledge-base edit
  ts_exists,     \* the sentinel file kb_timestamp exists
  ts_mtime,      \* its modification time
  es_exists,     \* the Elasticsearch index kb_index_name exists
  es_docs,       \* its documents, one per _id
  ledger,        \* the files of kb_app_dir: [fn, contents]
  lock,          \* the process holding the InterProcessLock, or NoProc
  pc,            \* process -> where it is in its handler
  args,          \* process -> the parsed command line
  todo,          \* process -> the (questions, answer) pairs still to sweep
  count,         \* process -> index_kb's count
  phases,        \* process -> the search phases run: <<[exact, total], ...>>
  qlinks,        \* process -> the links get_links returned
  answers,       \* process -> run_query's answers list
  result,        \* process -> how the invocation ended and what it returned
  waits,         \* process -> failed polls of the lock so far
  runs,          \* the invocations started so far
  \* History, kept to state the properties:
  upserted,      \* process -> the pairs this invocation sent to es.index
  skipped,       \* process -> the pairs this invocation skipped as indexed
  fresh,         \* process -> at its staleness check nothing was modified
                 \*            since the sentinel was last touched
  loaded,        \* process -> the pairs its sweep loaded
  tainted,       \* process -> another process deleted the index meanwhile
  invalid,       \* process -> the knowledge base its sweep loaded held an
                 \*            entry without a question or without an answer
  wrote,         \* process -> it wrote to the index, the ledger or the sentinel
  fetched,       \* process -> the pages get_result was asked for, in order
  indexedKb,     \* the pairs the last completed reindex loaded
  sentinelBy,    \* the kind of reindex that last touched the sentinel
  \* The link selection on its own:
  links,         \* the links handed to get_link_at_pos
  position,      \* the position handed to get_link_at_pos
  link,          \* whether get_link_at_pos was called, and what it returned
  yielded        \* whether iter_kb was consumed on its own, and what it yielded

kbVars == <<kb, malformed, mtime, clock>>
tsVars == <<ts_exists, ts_mtime>>
esVars == <<es_exists, es_docs>>
sweepVars == <<todo, count>>
queryVars == <<phases, qlinks, answers>>
histVars == <<upserted, skipped, fresh, loaded, tainted, invalid, wrote, fetched,
             indexedKb, sentinelBy>>
linkVars == <<links, position, link, yielded>>

vars == <<kbVars, tsVars, esVars, ledger, lock, pc, args, sweepVars, queryVars,
          result, waits, runs, histVars, linkVars>>

(***************************************************************************)
(* Knowledge Base Loader.                                                  *)
(***************************************************************************)
None == "None"

\* What iter_kb yields for a file name in only_filenames mode.
Path(fn) == [path |-> fn]
IsPath(y) == "path" \in DOMAIN y

\* Every yielded entry tagged with the root file, whatever file holds it.
TaggedWithRoot(item, fn) ==
  [include |-> item.include, questions |-> item.questions,
   answers |-> item.answers, filename |-> ROOT]

\* item['filename'] = fn; yield item
Tagged(item, fn) ==
  [include |-> item.include, questions |-> item.questions,
   answers |-> item.answers, filename |-> fn]

RECURSIVE IterItems(_, _, _, _)
\* The for loop of iter_kb over the items of file fn. An include recurses
\* with only_filenames left at its default (False). depth is the recursion
\* depth left: an include cycle recurses until Python's recursion limit.
IterItems(fn, items, only_filenames, depth) ==
  IF items = <<>> THEN <<>>
  ELSE LET item == Head(items)
           rest == IterItems(fn, Tail(items), only_filenames, depth)
       IN IF item.include # NoInclude
          THEN IF only_filenames THEN <<Path(item.include)>> \o rest
               ELSE IF depth = 0 THEN rest
               ELSE IterItems(item.include, kb[item.include], FALSE, depth - 1)
                      \o rest
          ELSE <<Tagged(item, fn)>> \o rest

\* iter_kb(fn, only_filenames): the sequence the generator yields.
iter_kb(fn, only_filenames) ==
  (IF only_filenames /\ fn = None THEN <<Path(ROOT)>> ELSE <<>>)
    \o LET f == IF fn = None THEN ROOT ELSE fn
       IN IterItems(f, kb[f], only_filenames, Cardinality(Files))

RECURSIVE Opened(_, _, _)
\* The files iter_kb opens with yaml.load.
Opened(fn, only_filenames, depth) ==
  {fn} \cup
    IF only_filenames \/ depth = 0 THEN {}
    ELSE UNION { Opened(kb[fn][i].include, FALSE, depth - 1) :
                 i \in {j \in 1..Len(kb[fn]) : kb[fn][j].include # NoInclude} }

\* yaml.load raises yaml.scanner.ScannerError somewhere in the iteration.
ScannerError(only_filenames) ==
  Opened(ROOT, only_filenames, Cardinality(Files)) \cap malformed # {}

\* count_total_kb_answers
RECURSIVE SumAnswers(_)
SumAnswers(items) ==
  IF items = <<>> THEN 0 ELSE Len(Head(items).answers) + SumAnswers(Tail(items))
count_total_kb_answers == SumAnswers(iter_kb(None, FALSE))

(***************************************************************************)
(* Staleness Detector.                                                     *)
(***************************************************************************)
RECURSIVE NewerThanTimestamp(_)
\* The for loop of is_kb_updated: os.path.getmtime of a yielded value that
\* is not a path (an entry dict) raises TypeError.
NewerThanTimestamp(kb_filenames) ==
  IF kb_filenames = <<>> THEN "False"
  ELSE LET kb_filename == Head(kb_filenames)
       IN IF ~IsPath(kb_filename) THEN "TypeError"
          ELSE IF mtime[kb_filename.path] > ts_mtime THEN "True"
          ELSE NewerThanTimestamp(Tail(kb_filenames))

\* is_kb_updated(): "True", "False", or the exception it raises.
is_kb_updated ==
  IF ~ts_exists THEN "True"
  ELSE IF ScannerError(TRUE) THEN "ScannerError"
  ELSE NewerThanTimestamp(iter_kb(None, TRUE))

(***************************************************************************)
(* Content-Hash Ledger.                                                    *)
(***************************************************************************)
\* mark_indexed: open(hash_fn, 'w').write(hash_contents)
mark_indexed(files, question_str, answer_str) ==
  LET hash_fn == get_text_hash(question_str)
  IN {r \in files : r.fn # hash_fn}
       \cup {[fn |-> hash_fn, contents |-> get_text_hash(answer_str)]}

\* is_indexed
is_indexed(question_str, answer_str) ==
  LET hash_fn == get_text_hash(question_str)
  IN /\ \E r \in ledger : r.fn = hash_fn
     /\ \A r \in ledger : r.fn = hash_fn => r.contents = get_text_hash(answer_str)

(***************************************************************************)
(* The documents of the search index.                                      *)
(***************************************************************************)
\* text = questions + ' ' + answer['text']; _id = get_text_hash(text)
DocText(questions, answer_text) == questions \o <<SP>> \o answer_text
DocId(questions, answer_text) == get_text_hash(DocText(questions, answer_text))

\* doc = dict(...) of index_kb
Doc(questions, answer, filename) ==
  [id |-> DocId(questions, answer.text), questions |-> questions,
   answer |-> answer.text, filename |-> filename,
   text |-> DocText(questions, answer.text), timestamp |-> answer.date,
   weight |-> answer.weight]

\* es.index(id=_id, body=doc): insert, or overwrite the document of that id
EsIndex(docs, doc) == {d \in docs : d.id # doc.id} \cup {doc}

\* The (questions, answer, filename) pairs index_kb sweeps, in order.
RECURSIVE PairsOf(_, _)
PairsOf(item, j) ==
  IF j > Len(item.answers) THEN <<>>
  ELSE <<[questions |-> Join(item.questions, NL), answer |-> item.answers[j],
          filename |-> item.filename]>> \o PairsOf(item, j + 1)

\* A test that finds a question in every entry.
NoQuestionsNever(item) == FALSE

\* questions = u'\n'.join(item.get('questions') or []); if not questions
NoQuestions(item) == Join(item.questions, NL) = <<>>
\* for answer in item['answers'] has nothing to go through
NoAnswers(item) == item.answers = <<>>

RECURSIVE SweepPairs(_)
\* for item in iter_kb: skip it when it has no questions, else its answers
SweepPairs(items) ==
  IF items = <<>> THEN <<>>
  ELSE (IF NoQuestions(Head(items)) THEN <<>>
        ELSE PairsOf(Head(items), 1)) \o SweepPairs(Tail(items))

(***************************************************************************)
(* Local Query Engine.                                                     *)
(***************************************************************************)
\* query_string on the field 'questions' with default_operator AND / OR
Matches(doc, query, exact) ==
  IF exact THEN Words(query) \subseteq Words(doc.questions)
  ELSE Words(query) \cap Words(doc.questions) # {}

\* The hit's _score: the relevance of the match (here the number of query
\* words found), times doc['weight'] (script_score), times the boost.
Score(doc, query, exact) ==
  (IF exact THEN BoostExact ELSE BoostRelaxed)
    * Cardinality(Words(query) \cap Words(doc.questions)) * doc.weight

RECURSIVE Ranked(_, _, _)
\* The hits in the order es.search returns them: best score first.
Ranked(docs, query, exact) ==
  IF docs = {} THEN <<>>
  ELSE LET best == CHOOSE d \in docs :
                     \A e \in docs : Score(e, query, exact) <= Score(d, query, exact)
       IN <<[_source |-> best, _score |-> Score(best, query, exact)]>>
            \o Ranked(docs \ {best}, query, exact)

\* _get_search_results(exact): results['hits']['hits']
get_search_results(docs, query, exact) ==
  Ranked({d \in docs : Matches(d, query, exact)}, query, exact)

RECURSIVE Strip(_)
\* str.strip()
Strip(text) ==
  IF text = <<>> THEN text
  ELSE IF Head(text) \in {SP, NL} THEN Strip(Tail(text))
  ELSE IF text[Len(text)] \in {SP, NL} THEN Strip(SubSeq(text, 1, Len(text) - 1))
  ELSE text

\* seq[:n] for n >= 0
Take(seq, n) == SubSeq(seq, 1, IF n < Len(seq) THEN n ELSE Len(seq))

\* answer_data of a local hit
LocalAnswer(hit) ==
  [answer |-> Strip(hit._source.answer), score |-> hit._score, source |-> None,
   filename |-> hit._source.filename, text |-> hit._source.text,
   weight |-> hit._source.weight, location |-> LOCAL_]

\* A loop that keeps every hit, whatever its score.
KeepAllHits(hs, min_score) == [i \in 1..Len(hs) |-> LocalAnswer(hs[i])]

RECURSIVE KeepHits(_, _)
\* for hit in hits: drop it when min_score >= 0 and score < min_score
KeepHits(hs, min_score) ==
  IF hs = <<>> THEN <<>>
  ELSE (IF min_score >= 0 /\ Head(hs)._score < min_score THEN <<>>
        ELSE <<LocalAnswer(Head(hs))>>) \o KeepHits(Tail(hs), min_score)

\* One pass of the loop of get_local_answers over a search method: the
\* answers it appends.
PhaseAnswers(docs, query, exact, num_answers, min_score) ==
  KeepHits(Take(get_search_results(docs, query, exact), num_answers), min_score)

(***************************************************************************)
(* Remote Fallback Resolver: link selection.                               *)
(***************************************************************************)
IsDigit(c) == c \in {"0", "1", "2", "3", "4", "5", "6", "7", "8", "9"}

\* re.search(r'questions/\d+/', link); "questions/" is one token of a link
is_question(lnk) ==
  \E i \in 1..Len(lnk) : \E j \in (i + 2)..Len(lnk) :
    /\ lnk[i] = "questions/"
    /\ \A k \in (i + 1)..(j - 1) : IsDigit(lnk[k])
    /\ lnk[j] = "/"

\* A selection that keeps the links of every shape.
FilterNothing(ls) == ls

RECURSIVE Filter(_)
\* [link for link in links if is_question(link)]
Filter(ls) ==
  IF ls = <<>> THEN <<>>
  ELSE (IF is_question(Head(ls)) THEN <<Head(ls)>> ELSE <<>>) \o Filter(Tail(ls))

\* get_link_at_pos returns False when no question link is left
NoLink == <<>>

get_link_at_pos(ls, pos) ==
  LET qs == Filter(ls)
  IN IF qs = <<>> THEN NoLink
     ELSE IF Len(qs) >= pos THEN qs[pos] ELSE qs[Len(qs)]

\* Links a result page can hold.
LHowdou == <<"/", "howdou">>
LQ42 == <<"/", "questions/", "4", "2", "/">>
LQ142 == <<"/", "questions/", "1", "4", "2", "/", "title">>
LTagged == <<"/", "questions/", "tagged", "/", "7", "/">>
LNoSlash == <<"/", "questions/", "4", "2">>
LinkSet == {LHowdou, LQ42, LQ142, LTagged, LNoSlash}

\* Sequences over S of length at most n.
SeqUpTo(S, n) == UNION {[1..k -> S] : k \in 0..n}

(***************************************************************************)
(* Invocations.                                                            *)
(***************************************************************************)
\* The arguments of get_parser(), with its defaults.
DefaultArgs ==
  [action |-> QUERY, query |-> <<>>, pos |-> 1, link |-> FALSE,
   num_answers |-> 1, min_score |-> -1, ignore_local |-> FALSE,
   ignore_remote |-> FALSE, show_score |-> FALSE, show_source |-> TRUE,
   force |-> FALSE, output |-> TRUE]

ReindexArgs == {[DefaultArgs EXCEPT !.action = REINDEX, !.force = f] : f \in BOOLEAN}
ClearCacheArgs == {[DefaultArgs EXCEPT !.action = CLEAR_CACHE]}

\* What a handler returns or raises.
NoneV == [type |-> "None", v |-> <<>>]
FalseV == [type |-> "bool", v |-> <<"False">>]
StrV(text) == [type |-> "str", v |-> text]
ListV(l) == [type |-> "list", v |-> l]
NoResult == [how |-> "running", value |-> NoneV, at |-> ""]

NotSynced == [synced |-> FALSE, pairs |-> <<>>]

\* A lock released by a statement after the block, not by a with statement.
WithExitOnReturnOnly(holder, p, how) ==
  IF how \in {"running", "return"} THEN NoProc ELSE holder

\* The with statement's exit: InterProcessLock.__exit__ releases the lock
\* however the block is left (return, exception, SystemExit).
WithExit(holder, p, how) == NoProc

\* A lock that is taken whether or not it is free.
CanAcquireAlways(holder) == TRUE

\* InterProcessLock._try_acquire: the lock file is free
CanAcquire(holder) == holder = NoProc

\* The statements under "with fasteners.InterProcessLock(...)".
Guarded ==
  {"index_kb", "delete_es", "delete_ledger", "count", "load", "sweep", "mark",
   "touch", "init_kb", "create", "search_and", "search_or", "remote",
   "get_links", "get_answer", "exit_with"}

ProcInit ==
  /\ pc = [p \in Procs |-> "idle"]
  /\ args = [p \in Procs |-> DefaultArgs]
  /\ todo = [p \in Procs |-> <<>>]
  /\ count = [p \in Procs |-> 0]
  /\ phases = [p \in Procs |-> <<>>]
  /\ qlinks = [p \in Procs |-> <<>>]
  /\ answers = [p \in Procs |-> <<>>]
  /\ result = [p \in Procs |-> NoResult]
  /\ waits = [p \in Procs |-> 0]
  /\ upserted = [p \in Procs |-> <<>>]
  /\ skipped = [p \in Procs |-> <<>>]
  /\ fresh = [p \in Procs |-> FALSE]
  /\ loaded = [p \in Procs |-> <<>>]
  /\ tainted = [p \in Procs |-> FALSE]
  /\ invalid = [p \in Procs |-> FALSE]
  /\ wrote = [p \in Procs |-> FALSE]
  /\ fetched = [p \in Procs |-> <<>>]

\* get_link_at_pos has not been called.
NotCalled == [called |-> FALSE, value |-> NoLink]
NotYielded == [called |-> FALSE, value |-> <<>>]
LinkIdle == links = <<>> /\ position = 1 /\ link = NotCalled /\ yielded = NotYielded

\* The knowledge bases on disk at the start, with the files that do not scan.
InitKBs ==
  {[kb |-> k, malformed |-> {}] : k \in KBs}
    \cup {[kb |-> k, malformed |-> {INC2}] : k \in {x \in KBs : x[INC2] # <<>>}}

\* Nothing was indexed and no invocation runs.
\* Nothing indexed, nobody running, no sentinel.
Quiet ==
  /\ mtime = [f \in Files |-> 0]
  /\ clock = 0
  /\ ts_exists = FALSE
  /\ ts_mtime = 0
  /\ es_exists = FALSE
  /\ es_docs = {}
  /\ ledger = {}
  /\ lock = NoProc
  /\ ProcInit
  /\ runs = 0
  /\ indexedKb = NotSynced
  /\ sentinelBy = "nobody"

Fresh ==
  /\ \E k \in InitKBs : kb = k.kb /\ malformed = k.malformed
  /\ Quiet

Init == Fresh /\ LinkIdle

\* return inside the with block
Return(p, value, at) ==
  /\ result' = [result EXCEPT ![p] = [how |-> "return", value |-> value, at |-> at]]
  /\ pc' = [pc EXCEPT ![p] = "exit_with"]

\* an exception leaves the with block
Raise(p, exc) ==
  /\ result' = [result EXCEPT ![p] = [how |-> "raise", value |-> NoneV, at |-> exc]]
  /\ pc' = [pc EXCEPT ![p] = "exit_with"]

\* run(): a new invocation of the command line in process p
Start(p, a, limit) ==
  /\ pc[p] \in {"idle", "done"}
  /\ runs < limit
  /\ runs' = runs + 1
  /\ args' = [args EXCEPT ![p] = a]
  /\ pc' = [pc EXCEPT ![p] =
              IF a.action = CLEAR_CACHE THEN "delete_es"
              ELSE IF a.action = REINDEX \/ Normalize(a.query) # <<>> THEN "acquire"
              ELSE "output"]
  /\ todo' = [todo EXCEPT ![p] = <<>>]
  /\ count' = [count EXCEPT ![p] = 0]
  /\ phases' = [phases EXCEPT ![p] = <<>>]
  /\ qlinks' = [qlinks EXCEPT ![p] = <<>>]
  /\ answers' = [answers EXCEPT ![p] = <<>>]
  /\ result' = [result EXCEPT ![p] = NoResult]
  /\ waits' = [waits EXCEPT ![p] = 0]
  /\ upserted' = [upserted EXCEPT ![p] = <<>>]
  /\ skipped' = [skipped EXCEPT ![p] = <<>>]
  /\ fresh' = [fresh EXCEPT ![p] = FALSE]
  /\ loaded' = [loaded EXCEPT ![p] = <<>>]
  /\ tainted' = [tainted EXCEPT ![p] = FALSE]
  /\ invalid' = [invalid EXCEPT ![p] = FALSE]
  /\ wrote' = [wrote EXCEPT ![p] = FALSE]
  /\ fetched' = [fetched EXCEPT ![p] = <<>>]
  /\ UNCHANGED <<kbVars, tsVars, esVars, ledger, lock, indexedKb, sentinelBy, linkVars>>

\* InterProcessLock.acquire: the lock file is free and p takes it
Acquire(p) ==
  /\ pc[p] = "acquire"
  /\ CanAcquire(lock)
  /\ lock' = p
  /\ pc' = [pc EXCEPT ![p] = IF args[p].action = REINDEX THEN "index_kb" ELSE "init_kb"]
  /\ UNCHANGED <<kbVars, tsVars, esVars, ledger, args, sweepVars, queryVars,
                 result, waits, histVars, runs, linkVars>>

\* InterProcessLock.acquire(blocking=True, timeout=None): the lock is held
\* by another process; p sleeps and polls again, without a limit.
LockWait(p) ==
  /\ pc[p] = "acquire"
  /\ ~CanAcquire(lock)
  /\ waits' = [waits EXCEPT ![p] =
                 IF waits[p] < MaxLockWaits THEN waits[p] + 1 ELSE waits[p]]
  /\ UNCHANGED <<kbVars, tsVars, esVars, ledger, lock, pc, args, sweepVars,
                 queryVars, result, histVars, runs, linkVars>>

\* The with block is left: the lock is released.
ExitWith(p) ==
  /\ pc[p] = "exit_with"
  /\ lock' = IF lock = p THEN WithExit(lock, p, result[p].how) ELSE lock
  /\ pc' = [pc EXCEPT ![p] = IF result[p].how = "running" THEN "output" ELSE "done"]
  /\ UNCHANGED <<kbVars, tsVars, esVars, ledger, args, sweepVars, queryVars,
                 result, waits, histVars, runs, linkVars>>

(***************************************************************************)
(* Incremental Indexer: index_kb, step by step.                            *)
(***************************************************************************)
\* if self.force: delete_index()  elif not is_kb_updated(): return
IndexKbStart(p) ==
  /\ pc[p] = "index_kb"
  /\ fresh' = [fresh EXCEPT ![p] =
                 /\ ts_exists
                 /\ sentinelBy = "non-forced"
                 /\ \A f \in Files : mtime[f] <= ts_mtime]
  /\ IF args[p].force
     THEN pc' = [pc EXCEPT ![p] = "delete_es"] /\ UNCHANGED result
     ELSE LET updated == is_kb_updated
          IN IF updated = "True"
             THEN pc' = [pc EXCEPT ![p] = "count"] /\ UNCHANGED result
             ELSE IF updated = "False" THEN Return(p, NoneV, "no_changes")
             ELSE Raise(p, updated)
  /\ UNCHANGED <<kbVars, tsVars, esVars, ledger, lock, args, sweepVars, queryVars,
                 waits, upserted, skipped, loaded, tainted, invalid, wrote, fetched,
                 indexedKb, sentinelBy, runs, linkVars>>

\* delete_index: es.indices.delete(index, ignore=[400, 404])
DeleteEs(p) ==
  /\ pc[p] = "delete_es"
  /\ es_exists' = FALSE
  /\ es_docs' = {}
  /\ wrote' = [wrote EXCEPT ![p] = TRUE]
  /\ tainted' = [q \in Procs |-> IF q = p THEN tainted[q] ELSE TRUE]
  /\ indexedKb' = NotSynced
  /\ pc' = [pc EXCEPT ![p] = "delete_ledger"]
  /\ UNCHANGED <<kbVars, tsVars, ledger, lock, args, sweepVars, queryVars, result,
                 waits, upserted, skipped, fresh, loaded, invalid, fetched,
                 sentinelBy, runs, linkVars>>

\* delete_index: os.system('rm -Rf %s/*' % self.kb_app_dir)
DeleteLedger(p) ==
  /\ pc[p] = "delete_ledger"
  /\ ledger' = {}
  /\ wrote' = [wrote EXCEPT ![p] = TRUE]
  /\ tainted' = [q \in Procs |-> IF q = p THEN tainted[q] ELSE TRUE]
  /\ indexedKb' = NotSynced
  /\ IF args[p].action = CLEAR_CACHE
     THEN /\ pc' = [pc EXCEPT ![p] = "done"]
          /\ result' = [result EXCEPT ![p] =
                          [how |-> "return", value |-> NoneV, at |-> "cleared"]]
     ELSE pc' = [pc EXCEPT ![p] = "count"] /\ UNCHANGED result
  /\ UNCHANGED <<kbVars, tsVars, esVars, lock, args, sweepVars, queryVars,
                 waits, upserted, skipped, fresh, loaded, invalid, fetched,
                 sentinelBy, runs, linkVars>>

\* total = count_total_kb_answers(); a ScannerError ends in sys.exit(1)
CountTotal(p) ==
  /\ pc[p] = "count"
  /\ IF ScannerError(FALSE)
     THEN /\ result' = [result EXCEPT ![p] =
                          [how |-> "exit", value |-> NoneV, at |-> "ScannerError"]]
          /\ pc' = [pc EXCEPT ![p] = "exit_with"]
     ELSE pc' = [pc EXCEPT ![p] = "load"] /\ UNCHANGED result
  /\ UNCHANGED <<kbVars, tsVars, esVars, ledger, lock, args, sweepVars, queryVars,
                 waits, histVars, runs, linkVars>>

\* for item in self.iter_kb(self.kb_filename): the knowledge base is read
LoadKb(p) ==
  /\ pc[p] = "load"
  /\ IF ScannerError(FALSE)
     THEN Raise(p, "ScannerError") /\ UNCHANGED <<todo, loaded, invalid>>
     ELSE /\ todo' = [todo EXCEPT ![p] = SweepPairs(iter_kb(ROOT, FALSE))]
          /\ loaded' = [loaded EXCEPT ![p] = SweepPairs(iter_kb(ROOT, FALSE))]
          /\ invalid' = [invalid EXCEPT ![p] =
                           \E i \in 1..Len(iter_kb(ROOT, FALSE)) :
                             LET item == iter_kb(ROOT, FALSE)[i]
                             IN NoQuestions(item) \/ NoAnswers(item)]
          /\ pc' = [pc EXCEPT ![p] = "sweep"]
          /\ UNCHANGED result
  /\ UNCHANGED <<kbVars, tsVars, esVars, ledger, lock, args, count, queryVars,
                 waits, upserted, skipped, fresh, tainted, wrote, fetched,
                 indexedKb, sentinelBy, runs, linkVars>>

\* for answer in item['answers']: skip the pair, fail on its date, or es.index
SweepPair(p) ==
  /\ pc[p] = "sweep"
  /\ todo[p] # <<>>
  /\ LET pair == Head(todo[p])
     IN /\ count' = [count EXCEPT ![p] = count[p] + 1]
        /\ IF ~args[p].force /\ is_indexed(pair.questions, pair.answer.text)
           THEN /\ skipped' = [skipped EXCEPT ![p] = Append(skipped[p], pair)]
                /\ todo' = [todo EXCEPT ![p] = Tail(todo[p])]
                /\ UNCHANGED <<pc, result, esVars, upserted, wrote>>
           ELSE IF ~DateParses(pair.answer.date)
           THEN /\ Raise(p, "Invalid date")
                /\ UNCHANGED <<todo, esVars, upserted, skipped, wrote>>
           ELSE /\ es_docs' = EsIndex(es_docs, Doc(pair.questions, pair.answer,
                                                   pair.filename))
                /\ es_exists' = TRUE
                /\ upserted' = [upserted EXCEPT ![p] = Append(upserted[p], pair)]
                /\ wrote' = [wrote EXCEPT ![p] = TRUE]
                /\ pc' = [pc EXCEPT ![p] = "mark"]
                /\ UNCHANGED <<todo, result, skipped>>
  /\ UNCHANGED <<kbVars, tsVars, ledger, lock, args, queryVars, waits, fresh,
                 loaded, tainted, invalid, fetched, indexedKb, sentinelBy, runs,
                 linkVars>>

\* self.mark_indexed(questions, answer['text'])
MarkIndexed(p) ==
  /\ pc[p] = "mark"
  /\ LET pair == Head(todo[p])
     IN ledger' = mark_indexed(ledger, pair.questions, pair.answer.text)
  /\ todo' = [todo EXCEPT ![p] = Tail(todo[p])]
  /\ pc' = [pc EXCEPT ![p] = "sweep"]
  /\ UNCHANGED <<kbVars, tsVars, esVars, lock, args, count, queryVars, result,
                 waits, histVars, runs, linkVars>>

\* A refresh that succeeds on an index that does not exist.
RefreshAlwaysOk(exists) == TRUE

\* es.indices.refresh(index) succeeds: the index exists
RefreshOk(exists) == exists

\* es.indices.refresh(index): NotFoundError when the index does not exist
Refresh(p) ==
  /\ pc[p] = "sweep"
  /\ todo[p] = <<>>
  /\ IF RefreshOk(es_exists)
     THEN pc' = [pc EXCEPT ![p] = "touch"] /\ UNCHANGED result
     ELSE Raise(p, "NotFoundError")
  /\ UNCHANGED <<kbVars, tsVars, esVars, ledger, lock, args, sweepVars, queryVars,
                 waits, histVars, runs, linkVars>>

\* self.update_kb_timestamp(), and index_kb returns
UpdateKbTimestamp(p) ==
  /\ pc[p] = "touch"
  /\ ts_exists' = TRUE
  /\ ts_mtime' = clock
  /\ wrote' = [wrote EXCEPT ![p] = TRUE]
  /\ indexedKb' = IF tainted[p] THEN NotSynced
                  ELSE [synced |-> TRUE, pairs |-> loaded[p]]
  /\ sentinelBy' = IF args[p].force THEN "forced" ELSE "non-forced"
  /\ Return(p, NoneV, "swept")
  /\ UNCHANGED <<kbVars, esVars, ledger, lock, args, sweepVars, queryVars,
                 waits, upserted, skipped, fresh, loaded, tainted, invalid, fetched,
                 runs, linkVars>>

(***************************************************************************)
(* The user edits the knowledge base.                                      *)
(***************************************************************************)
\* The text of answer j of entry i of file f becomes t; the file is saved.
EditAnswer(f, i, j, t) ==
  /\ clock < MaxEdits
  /\ i \in 1..Len(kb[f])
  /\ j \in 1..Len(kb[f][i].answers)
  /\ kb[f][i].answers[j].text # t
  /\ kb' = [kb EXCEPT ![f][i].answers[j].text = t]
  /\ clock' = clock + 1
  /\ mtime' = [mtime EXCEPT ![f] = clock + 1]
  /\ UNCHANGED <<malformed, tsVars, esVars, ledger, lock, pc, args, sweepVars,
                 queryVars, result, waits, histVars, runs, linkVars>>

\* The date of answer j of entry i of file f becomes a string that is no
\* date; the file is saved.
EditDate(f, i, j) ==
  /\ clock < MaxEdits
  /\ i \in 1..Len(kb[f])
  /\ j \in 1..Len(kb[f][i].answers)
  /\ kb[f][i].answers[j].date # BadDate
  /\ kb' = [kb EXCEPT ![f][i].answers[j].date = BadDate]
  /\ clock' = clock + 1
  /\ mtime' = [mtime EXCEPT ![f] = clock + 1]
  /\ UNCHANGED <<malformed, tsVars, esVars, ledger, lock, pc, args, sweepVars,
                 queryVars, result, waits, histVars, runs, linkVars>>

(***************************************************************************)
(* run_query, step by step.                                                *)
(***************************************************************************)
\* Python's None where a text or a file name is expected.
NoneText == <<None>>

\* self.init_kb(); self.append_header = ...; if not self.ignore_local:
QueryBegin(p) ==
  /\ pc[p] = "init_kb"
  /\ pc' = [pc EXCEPT ![p] = IF args[p].ignore_local THEN "remote" ELSE "create"]
  /\ UNCHANGED <<kbVars, tsVars, esVars, ledger, lock, args, sweepVars, queryVars,
                 result, waits, histVars, runs, linkVars>>

\* get_local_answers: es.indices.create(index, ignore=400)
CreateIndex(p) ==
  /\ pc[p] = "create"
  /\ es_exists' = TRUE
  /\ wrote' = [wrote EXCEPT ![p] = TRUE]
  /\ pc' = [pc EXCEPT ![p] = "search_and"]
  /\ UNCHANGED <<kbVars, tsVars, es_docs, ledger, lock, args, sweepVars, queryVars,
                 result, waits, upserted, skipped, fresh, loaded, tainted, invalid,
                 fetched,
                 indexedKb, sentinelBy, runs, linkVars>>

\* A loop that always runs both search methods.
PhaseIsTerminalAtEnd(total, exact) == ~exact

\* if total: break - or the list of methods is exhausted
PhaseIsTerminal(total, exact) == total > 0 \/ ~exact

\* One pass of "for method in [AND, OR]": search, keep the hits, and stop
\* the loop when the search returned any hit. es.search raises
\* NotFoundError when the index does not exist.
Search(p, exact) ==
  /\ IF ~es_exists
     THEN Raise(p, "NotFoundError") /\ UNCHANGED <<phases, answers>>
     ELSE LET query == Normalize(args[p].query)
              total == Len(get_search_results(es_docs, query, exact))
          IN /\ phases' = [phases EXCEPT ![p] =
                             Append(phases[p], [exact |-> exact, total |-> total])]
             /\ answers' = [answers EXCEPT ![p] =
                              answers[p] \o PhaseAnswers(es_docs, query, exact,
                                                         args[p].num_answers,
                                                         args[p].min_score)]
             /\ pc' = [pc EXCEPT ![p] =
                         IF PhaseIsTerminal(total, exact) THEN "remote"
                         ELSE "search_or"]
             /\ UNCHANGED result
  /\ UNCHANGED <<kbVars, tsVars, esVars, ledger, lock, args, sweepVars, qlinks,
                 waits, histVars, runs, linkVars>>

SearchExact(p) == pc[p] = "search_and" /\ Search(p, TRUE)
SearchRelaxed(p) == pc[p] = "search_or" /\ Search(p, FALSE)

\* A fallback that does not look at the local answers.
GoesRemoteAnyway(local_answers, ignore_remote) == ~ignore_remote

\* if not answers and not self.ignore_remote:
GoesRemote(local_answers, ignore_remote) == local_answers = <<>> /\ ~ignore_remote

RemoteCheck(p) ==
  /\ pc[p] = "remote"
  /\ pc' = [pc EXCEPT ![p] =
              IF GoesRemote(answers[p], args[p].ignore_remote) THEN "get_links"
              ELSE "exit_with"]
  /\ UNCHANGED <<kbVars, tsVars, esVars, ledger, lock, args, sweepVars, queryVars,
                 result, waits, histVars, runs, linkVars>>

\* What the web search can return.
LinkLists == {<<>>, <<LHowdou>>, <<LHowdou, LQ42>>, <<LQ42, LQ142>>}
\* What the extraction of the answer page can give as text.
PageTexts == {NoneText, <<"l", SP, "s", NL>>, <<>>}

\* get_result: requests.get raises; an SSLError is reported and raised
\* again, any other error is not caught.
TransportErrors == {"SSLError", "ConnectionError"}

\* links = self.get_links(query); if not links: return False
GetLinks(p) ==
  /\ pc[p] = "get_links"
  /\ fetched' = [fetched EXCEPT ![p] = Append(fetched[p], "search")]
  /\ \/ \E exc \in TransportErrors : Raise(p, exc) /\ UNCHANGED <<qlinks, count>>
     \/ \E ls \in LinkLists :
          IF ls = <<>>
          THEN Return(p, FalseV, "no_links") /\ UNCHANGED <<qlinks, count>>
          ELSE /\ qlinks' = [qlinks EXCEPT ![p] = ls]
               /\ count' = [count EXCEPT ![p] = 0]
               /\ pc' = [pc EXCEPT ![p] = "get_answer"]
               /\ UNCHANGED result
  /\ UNCHANGED <<kbVars, tsVars, esVars, ledger, lock, args, todo, phases, answers,
                 waits, upserted, skipped, fresh, loaded, tainted, invalid, wrote,
                 indexedKb, sentinelBy, runs, linkVars>>

\* answer_data of a remote answer
RemoteAnswer(answer, lnk) ==
  [answer |-> answer, score |-> 1, source |-> lnk, filename |-> None,
   text |-> NoneText, weight |-> 1, location |-> REMOTE]

\* get_answer: if text is None: text = NO_ANSWER_MSG; text = text.strip()
AnswerText(text) == Strip(IF text = NoneText THEN NO_ANSWER_MSG ELSE text)

\* if not answer and not link: continue
Kept(answer, lnk) == ~((answer = NoneText \/ answer = <<>>) /\ lnk = NoLink)

\* One pass of "for answer_number in range(self.num_answers)": get_answer.
GetAnswer(p) ==
  /\ pc[p] = "get_answer"
  /\ count[p] < args[p].num_answers
  /\ count' = [count EXCEPT ![p] = count[p] + 1]
  /\ LET lnk == get_link_at_pos(qlinks[p], args[p].pos)
     IN IF lnk = NoLink
        THEN UNCHANGED <<answers, fetched, result, pc>>
        ELSE IF args[p].link
        THEN /\ answers' = [answers EXCEPT ![p] =
                              Append(answers[p], RemoteAnswer(NoneText, lnk))]
             /\ UNCHANGED <<fetched, result, pc>>
        ELSE /\ fetched' = [fetched EXCEPT ![p] = Append(fetched[p], "page")]
             /\ \/ \E exc \in TransportErrors : Raise(p, exc) /\ UNCHANGED answers
                \/ \E text \in PageTexts :
                     /\ answers' = [answers EXCEPT ![p] =
                                      IF Kept(AnswerText(text), lnk)
                                      THEN Append(answers[p],
                                                  RemoteAnswer(AnswerText(text), lnk))
                                      ELSE answers[p]]
                     /\ UNCHANGED <<result, pc>>
  /\ UNCHANGED <<kbVars, tsVars, esVars, ledger, lock, args, todo, phases, qlinks,
                 waits, upserted, skipped, fresh, loaded, tainted, invalid, wrote,
                 indexedKb, sentinelBy, runs, linkVars>>

\* The for loop is over: the with block ends.
AnswersDone(p) ==
  /\ pc[p] = "get_answer"
  /\ count[p] >= args[p].num_answers
  /\ pc' = [pc EXCEPT ![p] = "exit_with"]
  /\ UNCHANGED <<kbVars, tsVars, esVars, ledger, lock, args, sweepVars, queryVars,
                 result, waits, histVars, runs, linkVars>>

\* self.append_header = self.num_answers > 1 or self.show_score or
\* self.show_source; run_query sets it and nothing reads it
append_header(a) == a.num_answers > 1 \/ a.show_score \/ a.show_source

\* ANSWER_HEADER.format(i=i+1, weight=score*weight, answer=..., source=...)
ANSWER_HEADER(i, weight, source, answer) ==
  <<"--- Answer: ", ToString(i), " --- Weight: ", ToString(weight),
    " --- Source: ">> \o source \o <<" ---", NL, NL>> \o answer

\* The element of s for answers[i].
OutputBlock(as, i) ==
  ANSWER_HEADER(i, as[i].score * as[i].weight,
                IF as[i].location = LOCAL_ THEN <<as[i].filename>> ELSE as[i].source,
                as[i].answer)

RECURSIVE JoinBlocks(_, _)
\* u'\n\n'.join(s)
JoinBlocks(as, i) ==
  IF i > Len(as) THEN <<>>
  ELSE OutputBlock(as, i) \o (IF i < Len(as) THEN <<NL, NL>> ELSE <<>>)
         \o JoinBlocks(as, i + 1)

\* output_str = u'\n' + (u'\n\n'.join(s)) + u'\n'
OutputStr(as) == <<NL>> \o JoinBlocks(as, 1) \o <<NL>>

\* if output: ... return output_str;  return answers
Output(p) ==
  /\ pc[p] = "output"
  /\ result' = [result EXCEPT ![p] =
                  [how |-> "return",
                   value |-> IF args[p].output THEN StrV(OutputStr(answers[p]))
                             ELSE ListV(answers[p]),
                   at |-> "end"]]
  /\ pc' = [pc EXCEPT ![p] = "done"]
  /\ UNCHANGED <<kbVars, tsVars, esVars, ledger, lock, args, sweepVars, queryVars,
                 waits, histVars, runs, linkVars>>

\* The steps of an invocation running in process p.
Step(p) ==
  \/ Acquire(p)
  \/ ExitWith(p)
  \/ IndexKbStart(p)
  \/ DeleteEs(p)
  \/ DeleteLedger(p)
  \/ CountTotal(p)
  \/ LoadKb(p)
  \/ SweepPair(p)
  \/ MarkIndexed(p)
  \/ Refresh(p)
  \/ UpdateKbTimestamp(p)

QueryStep(p) ==
  \/ QueryBegin(p)
  \/ CreateIndex(p)
  \/ SearchExact(p)
  \/ SearchRelaxed(p)
  \/ RemoteCheck(p)
  \/ GetLinks(p)
  \/ GetAnswer(p)
  \/ AnswersDone(p)
  \/ Output(p)

Edit == \E f \in Files : \E i \in 1..2 : \E j \in 1..2 :
          \/ \E t \in EditTexts : EditAnswer(f, i, j, t)
          \/ EditDate(f, i, j)

\* The queries asked between and beside the reindexes.
ConcQueryArgs ==
  {[DefaultArgs EXCEPT !.query = q, !.ignore_remote = r] :
     q \in {<<>>, <<"a">>}, r \in BOOLEAN}

(***************************************************************************)
(* Spec: one user at a terminal, who reindexes, clears the cache, asks     *)
(* and edits the knowledge base, one command after the other.              *)
(***************************************************************************)
Next ==
  \/ \E a \in ReindexArgs \cup ClearCacheArgs \cup ConcQueryArgs : Start(1, a, MaxRuns)
  \/ Step(1)
  \/ QueryStep(1)
  \/ Edit

Spec == Init /\ [][Next]_vars

(***************************************************************************)
(* SpecConc: invocations running at the same time in several processes.    *)
(***************************************************************************)
NextConc ==
  \/ \E p \in Procs : \E a \in ReindexArgs \cup ClearCacheArgs \cup ConcQueryArgs :
       Start(p, a, MaxConcRuns)
  \/ \E p \in Procs : LockWait(p)
  \/ \E p \in Procs : Step(p)
  \/ \E p \in Procs : QueryStep(p)

RECURSIVE SweptDocs(_, _)
\* The index after a sweep has sent the pairs to es.index.
SweptDocs(pairs, docs) ==
  IF pairs = <<>> THEN docs
  ELSE SweptDocs(Tail(pairs),
                 EsIndex(docs, Doc(Head(pairs).questions, Head(pairs).answer,
                                   Head(pairs).filename)))

RECURSIVE SweptLedger(_, _)
\* The ledger after a sweep has marked the pairs.
SweptLedger(pairs, files) ==
  IF pairs = <<>> THEN files
  ELSE SweptLedger(Tail(pairs),
                   mark_indexed(files, Head(pairs).questions, Head(pairs).answer.text))

\* A first reindex of the knowledge base runs to its end.
Sweepable ==
  /\ ~ScannerError(FALSE)
  /\ LET pairs == SweepPairs(iter_kb(ROOT, FALSE))
     IN pairs # <<>> /\ \A k \in 1..Len(pairs) : DateParses(pairs[k].answer.date)

\* The processes start on a knowledge base that was never indexed, or on
\* one that a first reindex has indexed.
InitConc ==
  /\ \E k \in InitKBs : kb = k.kb /\ malformed = k.malformed
  /\ mtime = [f \in Files |-> 0]
  /\ clock = 0
  /\ ts_mtime = 0
  /\ \E indexed \in BOOLEAN :
       LET pairs == SweepPairs(iter_kb(ROOT, FALSE))
       IN IF indexed /\ Sweepable
          THEN /\ ts_exists = TRUE
               /\ es_exists = TRUE
               /\ es_docs = SweptDocs(pairs, {})
               /\ ledger = SweptLedger(pairs, {})
               /\ indexedKb = [synced |-> TRUE, pairs |-> pairs]
               /\ sentinelBy = "non-forced"
          ELSE /\ ts_exists = FALSE
               /\ es_exists = FALSE
               /\ es_docs = {}
               /\ ledger = {}
               /\ indexedKb = NotSynced
               /\ sentinelBy = "nobody"
  /\ lock = NoProc
  /\ ProcInit
  /\ runs = 0
  /\ LinkIdle

SpecConc == InitConc /\ [][NextConc]_vars

\* The processes start on a knowledge base that a first reindex has indexed
\* and whose root file was saved again afterwards, so that the next
\* non-forced reindex finds it stale.
InitStale ==
  /\ \E k \in InitKBs : kb = k.kb /\ malformed = k.malformed
  /\ Sweepable
  /\ mtime = [f \in Files |-> IF f = ROOT THEN 1 ELSE 0]
  /\ clock = 1
  /\ ts_exists = TRUE
  /\ ts_mtime = 0
  /\ LET pairs == SweepPairs(iter_kb(ROOT, FALSE))
     IN /\ es_exists = TRUE
        /\ es_docs = SweptDocs(pairs, {})
        /\ ledger = SweptLedger(pairs, {})
        /\ indexedKb = [synced |-> TRUE, pairs |-> pairs]
  /\ sentinelBy = "non-forced"
  /\ lock = NoProc
  /\ ProcInit
  /\ runs = 0
  /\ LinkIdle

SpecStale == InitStale /\ [][NextConc]_vars

(***************************************************************************)
(* SpecQuery: one query, with any of its options, against an index that    *)
(* was never built or that a reindex has built from the knowledge base.    *)
(***************************************************************************)
\* The query strings asked.
Queries == {<<>>, <<"a">>, <<"a", "-", "b">>, <<"a", SP, "z">>, <<"z">>}
\* The score floors asked for: none, and floors between the scores.
MinScores == {-1, 2, 8}

\* The command lines of a query; --num-answers is a count, from 0 up.
QueryArgs ==
  {[DefaultArgs EXCEPT !.query = q, !.pos = ps, !.link = l, !.num_answers = n,
                       !.min_score = m, !.ignore_local = il, !.ignore_remote = ir,
                       !.show_score = d[1], !.show_source = d[2], !.output = o] :
     q \in Queries, ps \in {1, MaxPos}, l \in BOOLEAN, n \in 0..MaxNumAnswers,
     m \in MinScores, il \in BOOLEAN, ir \in BOOLEAN, o \in BOOLEAN,
     d \in {<<FALSE, TRUE>>, <<FALSE, FALSE>>, <<TRUE, FALSE>>}}

InitQuery == InitConc /\ malformed = {} /\ Sweepable

\* The one query of a behaviour is asked.
StartQuery == pc[1] = "idle" /\ \E a \in QueryArgs : Start(1, a, 1)

NextQuery ==
  \/ StartQuery
  \/ Acquire(1)
  \/ ExitWith(1)
  \/ QueryStep(1)

SpecQuery == InitQuery /\ [][NextQuery]_vars

(***************************************************************************)
(* SpecLink: get_link_at_pos applied to a list of links and a position.    *)
(***************************************************************************)
InitLink ==
  /\ Fresh
  /\ links \in SeqUpTo(LinkSet, MaxLinks)
  /\ position \in 1..MaxPos
  /\ link = NotCalled
  /\ yielded = NotYielded

\* link = get_link_at_pos(links, self.pos)
CallGetLinkAtPos ==
  /\ ~link.called
  /\ link' = [called |-> TRUE, value |-> get_link_at_pos(links, position)]
  /\ UNCHANGED <<kbVars, tsVars, esVars, ledger, lock, pc, args, sweepVars,
                 queryVars, result, waits, histVars, runs, links, position, yielded>>

NextLink == CallGetLinkAtPos

SpecLink == InitLink /\ [][NextLink]_vars

\* ---------------------------------------------------------------------
\* The loader on its own: iter_kb() consumed over knowledge bases whose
\* files include one another without a cycle.

\* The entries the files are built from.
LoadEntries ==
  {Entry(<<QA>>, <<Answer(TC, GoodDate, 1)>>),
   Entry(<<QB>>, <<Answer(TD, GoodDate, 1)>>)}

\* The files a file may include: only files later in the order
\* howdou.yml, inc1.yml, inc2.yml, so that no include chain comes back.
Below(f) == IF f = ROOT THEN {INC1, INC2} ELSE IF f = INC1 THEN {INC2} ELSE {}

LoadItems(f) == LoadEntries \cup {Include(g) : g \in Below(f)}

InitLoad ==
  /\ \E r \in SeqUpTo(LoadItems(ROOT), MaxItems),
        a \in SeqUpTo(LoadItems(INC1), MaxItems),
        b \in SeqUpTo(LoadItems(INC2), MaxItems) :
       kb = [f \in Files |-> IF f = ROOT THEN r ELSE IF f = INC1 THEN a ELSE b]
  /\ malformed = {}
  /\ Quiet
  /\ LinkIdle

\* list(self.iter_kb())
CallIterKb ==
  /\ ~yielded.called
  /\ yielded' = [called |-> TRUE, value |-> iter_kb(None, FALSE)]
  /\ UNCHANGED <<kbVars, tsVars, esVars, ledger, lock, pc, args, sweepVars,
                 queryVars, result, waits, histVars, runs, links, position, link>>

NextLoad == CallIterKb

SpecLoad == InitLoad /\ [][NextLoad]_vars

(***************************************************************************)
(* Properties.                                                             *)
(***************************************************************************)
\* Process p is at a statement of the with block of run_reindex or run_query.
InWith(p) == pc[p] \in Guarded /\ args[p].action # CLEAR_CACHE
IsReindex(p) == args[p].action = REINDEX
IsQuery(p) == args[p].action = QUERY

\* C1 (idempotence of reindex): a non-forced reindex that starts when a
\* non-forced reindex has completed and no knowledge-base file was modified
\* since finds nothing stale, returns normally as a no-op, upserts no
\* document and writes nothing to the index, the ledger or the sentinel.
C1_ReindexIdempotent ==
  \A p \in Procs :
    (pc[p] = "done" /\ IsReindex(p) /\ ~args[p].force /\ fresh[p])
      => /\ result[p].how = "return"
         /\ result[p].at = "no_changes"
         /\ upserted[p] = <<>>
         /\ ~wrote[p]

\* The sweep of old and the sweep of new differ in the text of answer k only,
\* and its new text is not the text of another answer to the same questions.
OnlyTextEdited(old, new, k) ==
  /\ Len(old) = Len(new)
  /\ k \in 1..Len(new)
  /\ old[k].answer.text # new[k].answer.text
  /\ old[k].questions = new[k].questions
  /\ \A m \in 1..Len(old) :
       old[m].questions = new[k].questions => old[m].answer.text # new[k].answer.text
  /\ \A m \in 1..Len(new) : m # k => old[m] = new[m]

\* C2 (change sensitivity): when a non-forced reindex has swept a knowledge
\* base that differs from the one the last completed reindex swept in the
\* text of exactly one answer, it has upserted exactly that pair and skipped
\* every other pair.
C2_OnlyEditedPairUpserted ==
  \A p \in Procs :
    (pc[p] = "touch" /\ IsReindex(p) /\ ~args[p].force /\ ~tainted[p]
       /\ indexedKb.synced)
      => \A k \in 1..Len(loaded[p]) :
           OnlyTextEdited(indexedKb.pairs, loaded[p], k)
             => /\ upserted[p] = <<loaded[p][k]>>
                /\ Len(skipped[p]) = Len(loaded[p]) - 1

\* C3 (mutations under the lock): a process about to create or delete the
\* index, upsert a document, or write or delete ledger records holds the
\* Process Lock.
C3_MutationsHoldLock ==
  \A p \in Procs :
    pc[p] \in {"delete_es", "delete_ledger", "sweep", "mark", "create"} => lock = p

\* C4 (release on every exit): the lock is held only by a process inside
\* its with block; once a reindex or query has left the block - by running
\* to its end, the "no changes" return, the "no links" return, sys.exit on a
\* scan error, or an exception - it no longer holds the lock.
C4_LockReleasedOnExit ==
  \A p \in Procs :
    /\ pc[p] \in {"idle", "output", "done", "acquire"} => lock # p
    /\ (pc[p] \in {"output", "done"} /\ (IsReindex(p) \/ IsQuery(p))) =>
         result[p].how \in {"running", "return", "raise", "exit"}

\* One process has left by sys.exit(1) or an exception, another by a return,
\* and the lock is free.
C4_Witness ==
  \E p, q \in Procs :
    /\ pc[p] = "done" /\ result[p].how \in {"exit", "raise"}
    /\ pc[q] = "done" /\ result[q].at \in {"no_changes", "no_links"}
    /\ lock = NoProc

LocalAnswers(as) == SelectSeq(as, LAMBDA a : a.location = LOCAL_)
\* Answer a was made from document d of the index.
FromDoc(a, d) == a.text = d.text /\ a.filename = d.filename /\ a.weight = d.weight
\* The documents whose questions hold every word, or some word, of query.
AndHits(query) == {d \in es_docs : Words(query) \subseteq Words(d.questions)}
OrHits(query) == {d \in es_docs : Words(query) \cap Words(d.questions) # {}}
\* The loop over the search methods of get_local_answers has ended.
LoopEnded(p) == phases[p] # <<>> /\ pc[p] # "search_or"
Min(a, b) == IF a < b THEN a ELSE b

\* C6 (two-phase local search): the strict phase runs first and the relaxed
\* phase only after a strict phase without hits, never a third; when the
\* strict phase has hits, every local answer comes from a strict hit; when
\* only the relaxed phase has hits, the local answers come from its hits,
\* and are all of them when no limit or floor cuts any.
C6_TwoPhase ==
  \A p \in Procs :
    LET ph == phases[p]
        query == Normalize(args[p].query)
        local == LocalAnswers(answers[p])
    IN /\ Len(ph) <= 2
       /\ Len(ph) >= 1 => ph[1].exact /\ ph[1].total = Cardinality(AndHits(query))
       /\ Len(ph) = 2 => /\ ph[1].total = 0
                         /\ ~ph[2].exact
                         /\ ph[2].total = Cardinality(OrHits(query))
       /\ (LoopEnded(p) /\ AndHits(query) # {}) =>
            /\ Len(ph) = 1
            /\ \A i \in 1..Len(local) : \E d \in AndHits(query) : FromDoc(local[i], d)
       /\ (LoopEnded(p) /\ AndHits(query) = {} /\ OrHits(query) # {}) =>
            /\ Len(ph) = 2
            /\ \A i \in 1..Len(local) : \E d \in OrHits(query) : FromDoc(local[i], d)
            /\ (args[p].min_score < 0
                  /\ args[p].num_answers >= Cardinality(OrHits(query))) =>
                 \A d \in OrHits(query) :
                   \E i \in 1..Len(local) : FromDoc(local[i], d)

\* A query without strict hits has ended with answers from the relaxed phase.
C6_Witness ==
  \E p \in Procs :
    /\ pc[p] = "done"
    /\ Len(phases[p]) = 2
    /\ phases[p][2].total >= 1
    /\ LocalAnswers(answers[p]) # <<>>

\* C7 as stated (fallback ordering): a query for at least one answer has
\* gone to the network only with remote search enabled and - unless local
\* search is disabled - after local phases that found no hit at all.
C7_RemoteOnlyOnZeroHits ==
  \A p \in Procs :
    (fetched[p] # <<>> /\ args[p].num_answers >= 1) =>
      /\ ~args[p].ignore_remote
      /\ \/ args[p].ignore_local
         \/ /\ LoopEnded(p)
            /\ \A i \in 1..Len(phases[p]) : phases[p][i].total = 0

\* C7 as amended: a query has gone to the network only with remote search
\* enabled and no local answer kept - local search being disabled, or run
\* to its end first - and a query that kept a local answer has not gone to
\* the network.
C7_RemoteOnlyOnNoLocalAnswers ==
  \A p \in Procs :
    /\ fetched[p] # <<>> =>
         /\ ~args[p].ignore_remote
         /\ LocalAnswers(answers[p]) = <<>>
         /\ IF args[p].ignore_local THEN phases[p] = <<>> ELSE LoopEnded(p)
    /\ (pc[p] = "done" /\ result[p].how = "return" /\ IsQuery(p)
          /\ Normalize(args[p].query) # <<>> /\ ~args[p].ignore_remote
          /\ LocalAnswers(answers[p]) = <<>>) => fetched[p] # <<>>

\* A query whose local search found hits, none of them kept, has gone to
\* the network.
C7_Witness ==
  \E p \in Procs :
    /\ fetched[p] # <<>>
    /\ ~args[p].ignore_local
    /\ args[p].num_answers >= 1
    /\ phases[p][Len(phases[p])].total > 0

\* C8 (score floor and limit): every local answer has a score of at least
\* min_score when min_score >= 0; with a negative min_score the local
\* answers are as many as the limit lets through of the hits found; and
\* the local answers never outnumber num_answers.
C8_ScoreFloorAndLimit ==
  \A p \in Procs :
    LET local == LocalAnswers(answers[p])
    IN /\ Len(local) <= args[p].num_answers
       /\ args[p].min_score >= 0 =>
            \A i \in 1..Len(local) : local[i].score >= args[p].min_score
       /\ (LoopEnded(p) /\ args[p].min_score < 0) =>
            Len(local) = Min(args[p].num_answers,
                             phases[p][Len(phases[p])].total)

\* A search under a score floor has kept one hit and dropped another that
\* the limit had let through.
C8_Witness ==
  \E p \in Procs :
    /\ LoopEnded(p)
    /\ args[p].min_score >= 0
    /\ Len(LocalAnswers(answers[p])) >= 1
    /\ Len(LocalAnswers(answers[p]))
         < Min(args[p].num_answers, phases[p][Len(phases[p])].total)

\* The places of links that hold a question link.
QuestionPlaces == {i \in 1..Len(links) : is_question(links[i])}

\* C9 (link selection): once get_link_at_pos has returned, its value is "no
\* link" exactly when links holds no question link; otherwise it is the
\* question link with position - 1 question links before it, or the last
\* question link when there are fewer than position of them.
C9_LinkAtPos ==
  link.called =>
    LET n == Cardinality(QuestionPlaces)
    IN /\ link.value = NoLink <=> n = 0
       /\ n > 0 =>
            \E i \in QuestionPlaces :
              /\ link.value = links[i]
              /\ Cardinality({j \in QuestionPlaces : j <= i})
                   = (IF position <= n THEN position ELSE n)

\* The position asked for exceeds the question links of a list that also
\* holds a link of another shape behind them: the last question link is
\* returned.
C9_Witness ==
  /\ link.called
  /\ QuestionPlaces # {}
  /\ Cardinality(QuestionPlaces) < position
  /\ Len(links) \notin QuestionPlaces
  /\ link.value # NoLink

\* C10 (end-to-end empty outcome): a non-empty query for at least one
\* answer that has ended with no matching document in the index and remote
\* search disabled has returned NO_ANSWER_MSG; one that has returned with
\* remote search enabled, a question link found and one answer asked for
\* holds exactly one answer, a remote one with a source link.
C10_EmptyOutcome ==
  \A p \in Procs :
    LET query == Normalize(args[p].query)
        ended == pc[p] = "done" /\ IsQuery(p) /\ query # <<>>
                   /\ ~args[p].ignore_local /\ OrHits(query) = {}
                   /\ args[p].num_answers >= 1
    IN /\ (ended /\ args[p].ignore_remote) =>
            /\ result[p].how = "return"
            /\ result[p].value = StrV(NO_ANSWER_MSG)
       /\ (ended /\ ~args[p].ignore_remote /\ result[p].how = "return"
             /\ Filter(qlinks[p]) # <<>> /\ args[p].num_answers = 1) =>
            /\ Len(answers[p]) = 1
            /\ answers[p][1].location = REMOTE
            /\ answers[p][1].source \notin {NoLink, <<None>>}

\* The files reachable from the root through include directives, at any
\* depth.
Reachable == Opened(ROOT, FALSE, Cardinality(Files))
\* The sentinel is missing, or a reachable file was modified after it.
Stale == ~ts_exists \/ \E f \in Reachable : mtime[f] > ts_mtime

\* C11 (staleness detection): the staleness check of a non-forced reindex
\* over a knowledge base whose files all scan finds changes exactly when
\* the sentinel is missing or a file reachable from the root through
\* includes, at any depth, is newer than the sentinel; otherwise it returns
\* false, and the reindex returns as a no-op, without an exception.
C11_StaleIffReachableNewer ==
  [][\A p \in Procs :
       (pc[p] = "index_kb" /\ pc'[p] # "index_kb" /\ ~args[p].force
          /\ Reachable \cap malformed = {})
         => IF Stale THEN pc'[p] = "count"
            ELSE /\ result'[p].how = "return"
                 /\ result'[p].at = "no_changes"]_vars

\* C12 (a malformed date is fatal): a reindex that has loaded a knowledge
\* base holding an answer whose date string does not parse has not swept
\* it to the end - it neither refreshes the index and touches the sentinel
\* nor returns as completed.
C12_BadDateAborts ==
  \A p \in Procs :
    (IsReindex(p) /\ \E k \in 1..Len(loaded[p]) : ~DateParses(loaded[p][k].answer.date))
      => /\ pc[p] # "touch"
         /\ result[p].at # "swept"

C15_QueryNeverRaises ==
  \A p \in Procs : (IsQuery(p) /\ pc[p] = "done") => result[p].how = "return"

RECURSIVE JoinAnswers(_, _)
\* The answers' texts, one blank line between two of them.
JoinAnswers(as, i) ==
  IF i > Len(as) THEN <<>>
  ELSE as[i].answer \o (IF i < Len(as) THEN <<NL, NL>> ELSE <<>>)
         \o JoinAnswers(as, i + 1)

\* C16 (the answer header is conditional): the text a query has returned
\* for its answers carries the "--- Answer: i --- Weight: w --- Source: s
\* ---" header before each answer when more than one answer was asked for
\* or the score or the source is to be shown, and is the answers' texts
\* alone otherwise.
C16_HeaderOnlyWhenAsked ==
  \A p \in Procs :
    (pc[p] = "done" /\ IsQuery(p) /\ args[p].output /\ result[p].at = "end"
       /\ answers[p] # <<>>)
      => result[p].value =
           StrV(IF append_header(args[p]) THEN OutputStr(answers[p])
                ELSE <<NL>> \o JoinAnswers(answers[p], 1) \o <<NL>>)


\* ---------------------------------------------------------------------
\* C17. The loader flattens includes: over a knowledge base whose include
\* graph has no cycle, iterating it yields the entries as if every include
\* directive had been replaced, where it stands and at any depth, by the
\* entries of the file it names; no include record is yielded, and every
\* entry carries the name of the file that physically holds it.

\* The items of a file as written, each with the name of that file.
InFile(fn) ==
  [i \in 1..Len(kb[fn]) |->
     [include |-> kb[fn][i].include, questions |-> kb[fn][i].questions,
      answers |-> kb[fn][i].answers, filename |-> fn]]

\* Textual inlining: the first include directive left in the sequence is
\* replaced by the items of the file it names, until none is left.
RECURSIVE Inline(_)
Inline(items) ==
  LET incs == {i \in 1..Len(items) : items[i].include # NoInclude}
  IN IF incs = {} THEN items
     ELSE LET i == CHOOSE j \in incs : \A k \in incs : j <= k
          IN Inline(SubSeq(items, 1, i - 1) \o InFile(items[i].include)
                      \o SubSeq(items, i + 1, Len(items)))

C17_IncludesFlattenedInPlace ==
  yielded.called =>
    /\ yielded.value = Inline(InFile(ROOT))
    /\ \A k \in 1..Len(yielded.value) :
         LET y == yielded.value[k]
         IN /\ y.include = NoInclude
            /\ \E i \in 1..Len(kb[y.filename]) :
                 kb[y.filename][i] = Entry(y.questions, y.answers)

\* A chain of depth two with an entry of the root after the include.
C17_Witness ==
  /\ yielded.called
  /\ Len(kb[ROOT]) = 2
  /\ kb[ROOT][1].include = INC1
  /\ kb[ROOT][2].include = NoInclude
  /\ \E i \in 1..Len(kb[INC1]) : kb[INC1][i].include = INC2
  /\ \E k \in 1..Len(yielded.value) : yielded.value[k].filename = INC2
  /\ yielded.value[Len(yielded.value)].filename = ROOT

\* ---------------------------------------------------------------------
\* C18. Ledger implies index: in every reachable state, whatever the
\* interleaving of reindexes, cache clearings and queries, a pair that
\* the ledger reports as indexed has its document (id = hash of
\* questions + " " + answer text) in the search index.

\* The index holds the document of the pair.
InIndex(pair) ==
  \E d \in es_docs : d.id = DocId(pair.questions, pair.answer.text)

C18_LedgerImpliesIndex ==
  \A p \in Procs : \A k \in 1..Len(loaded[p]) :
    is_indexed(loaded[p][k].questions, loaded[p][k].answer.text)
      => InIndex(loaded[p][k])

\* C18, its consequence: the sweep never skips, on the ledger's word, a
\* pair whose document the index does not hold.
C18_NoMissingPairSkipped ==
  [][\A p \in Procs :
       Len(skipped'[p]) > Len(skipped[p]) => InIndex(Head(todo[p]))]_vars

\* ---------------------------------------------------------------------
\* C19. The index mirrors the knowledge base after a sync: once a
\* non-forced reindex has completed over the knowledge base as it now
\* stands, every document of the search index is the document of a
\* (questions, answer text) pair of that knowledge base, so that no local
\* query returns an answer that was edited away.
C19_IndexMirrorsKb ==
  \A p \in Procs :
    (/\ pc[p] = "done" /\ IsReindex(p) /\ ~args[p].force
     /\ result[p].how = "return" /\ result[p].at = "swept"
     /\ ~ScannerError(FALSE)
     /\ SweepPairs(iter_kb(ROOT, FALSE)) = loaded[p])
      => \A d \in es_docs :
           \E k \in 1..Len(loaded[p]) :
             d.id = DocId(loaded[p][k].questions, loaded[p][k].answer.text)

====
